---- MODULE Spec2Model ----
(***************************************************************************)
(* State-machine model of src/predictor.jsx (StockPricePredictor).         *)
(*                                                                         *)
(* The React component's useState cells are the variables.  Every event    *)
(* handler is one action for its synchronous part (the code that runs up   *)
(* to its first await) and one action for each continuation that runs      *)
(* after an await settles.  An invocation that is suspended at an await is *)
(* a task record in `tasks`; the record keeps the values of the render's   *)
(* closure that the continuation still reads (a handler sees the state of  *)
(* the render in which it was created, not later setState calls).          *)
(*                                                                         *)
(* The environment (the dynamic import of the ML engine, the network, the  *)
(* model (de)serialisation and IndexedDB requests) settles each request    *)
(* either way; that choice is the nondeterminism of the model.             *)
(***************************************************************************)
EXTENDS Integers, Naturals, Sequences, FiniteSets, TLC

\* ------------------------------------------------------------------ bounds
\* number of handler invocations that may be suspended at the same time
MaxTasks == 2
\* lengths of the shortest and the longest series the market-data API may
\* return (a third one has exactly Lookback points)
ShortLen == 19
LongLen == 30

\* lstmParams.epochs and the horizon of the Predict button, scaled down: the
\* source trains for 30 epochs and forecasts 5 days
Epochs == 2
Horizon == 2

\* ------------------------------------------------------- program constants
\* lstmParams.lookback (lstmParams is never changed by the UI)
Lookback == 20
\* the epoch count mockTrain falls back to: Number(lstmParams.epochs || 10)
DefaultMockEpochs == 10

DefaultSymbol == "AAPL"
DefaultApiKey == ""
DefaultTheme == "light"

Symbols == {"AAPL", "MSFT"}
ApiKeys == {"", "KEY"}
Themes == {"light", "dark"}

\* ------------------------------------------------------------ model values
\* the `model` cell: null, the mock marker object { mock: true, ... }, or a
\* tf.LayersModel (built by fit, deserialised from files or from IndexedDB)
NoModel == "null"
MockModel == "mock"
LayersModel == "LayersModel"
Models == {NoModel, MockModel, LayersModel}

\* alert() texts
NoAlert == "-"
AlertTfLoaded == "TensorFlow.js loaded. Mock mode disabled."
AlertTfUnable == "Unable to load TensorFlow.js in this environment. Continuing in mock mode."
AlertFetchFailed == "Failed to fetch stock data. Check your API key or symbol."
AlertMockTrainDone == "Mock training complete (TF not required)."
AlertMockPredictDone == "Mock predictions generated."
AlertFetchFirst == "Fetch data first."
AlertTrainDone == "Training complete (real TF)."
AlertTrainNotEnough == "Training failed: Not enough data for the chosen lookback."
AlertTrainFailed == "Training failed: <engine error>"
AlertPredictFailed == "Prediction failed: <engine error>"
AlertTrainFirst == "Train a model first."
AlertExportMock == "Cannot export in mock mode or without TensorFlow.js."
AlertExportDone == "Model exported as files (JSON + weights)."
AlertExportFailed == "Export failed: <engine error>"
AlertImportMock == "Cannot import model while in mock mode."
AlertImportDone == "Model imported and saved to browser storage (if available)."
AlertImportNoFiles == "Import failed: No files selected"
AlertImportFailed == "Import failed: <engine error>"
AlertNoIdb == "IndexedDB not available in this environment."
AlertDeleteMock == "No persisted real model when in mock mode."
AlertDeleteDone == "Persisted model deleted."
AlertDeleteFailed == "Failed to delete persisted model: <engine error>"
AlertResetDone == "All settings reset to default."

VARIABLES
    symbol, apiKey, rememberSettings, theme, \* preference cells
    localStorage,                            \* the browser's preference store
    data, predictions,                       \* fetched series and forecast
    loading, training, lossHistory,          \* progress indicators
    tfAvailable, mockMode,                   \* engine ready flag and mode
    model, persistedModel,                   \* current ModelHandle and flag
    stored,                                  \* IndexedDB entry lstm-stock-model
    idbAvailable,                            \* does indexedDB exist here
    lstmParams,                              \* training parameters
    engineLoaded,                            \* the engine module is in the module cache
    tasks,                                   \* suspended handler invocations
    alertMsg,                                \* alert() shown by the latest step
    unhandled                                \* a handler's promise rejected

prefVars == <<symbol, apiKey, rememberSettings, theme, localStorage>>
modeVars == <<tfAvailable, mockMode>>
modelVars == <<model, persistedModel, stored>>
busyVars == <<loading, training, lossHistory>>
envVars == <<idbAvailable, engineLoaded, lstmParams>>
vars == <<symbol, apiKey, rememberSettings, theme, localStorage, data,
          predictions, loading, training, lossHistory, tfAvailable, mockMode,
          model, persistedModel, stored, idbAvailable, lstmParams,
          engineLoaded, tasks, alertMsg, unhandled>>

\* ------------------------------------------------------------------ helpers
Absent == "<absent>"
StoreKeys == {"lastSymbol", "lastApiKey", "rememberSettings", "theme"}
EmptyStore == [k \in StoreKeys |-> Absent]
BoolStr(b) == IF b THEN "true" ELSE "false"

\* a daily series of n points, oldest first; dates are day numbers
Series(n) == [i \in 1..n |-> [date |-> i, close |-> 100 + ((i * 7) % 5)]]
FetchResults == {Series(ShortLen), Series(Lookback), Series(LongLen)}

\* Floats are fixed-point numbers: Scale units make 1.0 of a normalised
\* value.  Closes are whole numbers.
Scale == 8
\* what model.predict may give for a window: 0.25 or 1.25
ModelOutputs == {2, 10}
\* what is read outside the bounds of an array
Undefined == -1

\* data.map((d) => d.close)
Closes(series) == [i \in 1..Len(series) |-> series[i].close]
\* Math.min(...arr) and Math.max(...arr) of a non-empty array
Min(arr) == CHOOSE v \in {arr[i] : i \in 1..Len(arr)} :
                \A i \in 1..Len(arr) : v <= arr[i]
Max(arr) == CHOOSE v \in {arr[i] : i \in 1..Len(arr)} :
                \A i \in 1..Len(arr) : v >= arr[i]
\* max - min || 1
Range(min, max) == IF max - min = 0 THEN 1 ELSE max - min
normalize(arr) ==
    LET min == Min(arr)
        max == Max(arr)
    IN  [norm |-> [i \in 1..Len(arr) |-> ((arr[i] - min) * Scale) \div Range(min, max)],
         min |-> min, max |-> max]
denormalize(arr, min, max) ==
    [i \in 1..Len(arr) |-> (arr[i] * Range(min, max)) \div Scale + min]

\* arr.slice(from, to) with 0 <= from, and arr.slice(-n): both stop at the
\* bounds of the array; arr[i] with a 0-based i
slice(arr, from, to) ==
    SubSeq(arr, from + 1, IF to < Len(arr) THEN to ELSE Len(arr))
sliceLast(arr, n) ==
    IF Len(arr) <= n THEN arr ELSE SubSeq(arr, Len(arr) - n + 1, Len(arr))
elem(arr, i) == IF i + 1 \in 1..Len(arr) THEN arr[i + 1] ELSE Undefined

\* The browser's time zone: hours ahead of UTC in winter, and the local day
\* on which the clocks go forward at 02:00 (0: no summer time)
DstDay == 21
Zones == {[off |-> 0, dst |-> 0], [off |-> 1, dst |-> DstDay],
          [off |-> -5, dst |-> DstDay]}
\* Instants are hours since the midnight (UTC) that starts day 0.
\* new Date('YYYY-MM-DD') is the UTC midnight of that day
parseDate(day) == 24 * day
\* hours the zone is ahead of UTC at an instant, and at a local wall time
OffsetAt(zone, utc) ==
    IF zone.dst # 0 /\ utc >= 24 * zone.dst + 2 - zone.off
       THEN zone.off + 1 ELSE zone.off
OffsetAtLocal(zone, local) ==
    IF zone.dst # 0 /\ local >= 24 * zone.dst + 3
       THEN zone.off + 1 ELSE zone.off
\* d.getDate(): the local day; d.setDate(day): that local day at the same
\* local time of day; d.toISOString().slice(0, 10): the UTC day
getDate(utc, zone) == (utc + OffsetAt(zone, utc)) \div 24
setDate(utc, zone, day) ==
    LET local == 24 * day + ((utc + OffsetAt(zone, utc)) % 24)
    IN  local - OffsetAtLocal(zone, local)
toISODate(utc) == utc \div 24

\* a suspended invocation: handler, await it is suspended at, loop counter,
\* the `model` and `data` of the closure it was created in, and the locals
\* inputSeq and preds of a rollout
Task(op, pc) ==
    [op |-> op, pc |-> pc, e |-> 0, cModel |-> NoModel, cData |-> <<>>,
     inputSeq |-> <<>>, preds |-> <<>>]
\* identical suspended invocations are not told apart: a second one is not
\* started, and one does not catch up with another
Put(t, rest) == t \notin rest /\ tasks' = rest \cup {t}
Suspend(t) == Cardinality(tasks) < MaxTasks /\ Put(t, tasks)
At(t, op, pc) == t \in tasks /\ t.op = op /\ t.pc = pc
Goto(t, pc) == Put([t EXCEPT !.pc = pc], tasks \ {t})
Finish(t) == tasks' = tasks \ {t}

indexedDBAvailable == idbAvailable

\* a selector that forgets the engine flag
selectImpl_ModeOnly(mock, tf) == IF mock THEN "mock" ELSE "live"

\* Mode Selector: which implementation a train / predict request runs
selectImpl(mock, tf) == IF mock \/ ~tf THEN "mock" ELSE "live"

\* --------------------------------------------------------------------- Init
\* the cells of the component after its first render and mount effects
InitCells ==
    /\ symbol = DefaultSymbol
    /\ apiKey = DefaultApiKey
    /\ rememberSettings = FALSE
    /\ theme = DefaultTheme
    /\ localStorage = [EmptyStore EXCEPT !["theme"] = DefaultTheme]
    /\ data = <<>>
    /\ predictions = <<>>
    /\ loading = FALSE
    /\ training = FALSE
    /\ lossHistory = <<>>
    /\ tfAvailable = FALSE
    /\ mockMode = TRUE
    /\ model = NoModel
    /\ persistedModel = FALSE
    /\ stored \in {NoModel, LayersModel}
    /\ idbAvailable \in BOOLEAN
    /\ engineLoaded = FALSE
    /\ (~idbAvailable => stored = NoModel)
    /\ tasks = {}
    /\ alertMsg = NoAlert
    /\ unhandled = FALSE

\* the component as written: useState({ lookback: 20, epochs: 30, ... })
Init ==
    /\ InitCells
    /\ lstmParams = [lookback |-> Lookback, epochs |-> Epochs]

\* the component with any configured epoch count, zero included
InitParams ==
    /\ InitCells
    /\ lstmParams \in [lookback : {Lookback}, epochs : 0..Epochs]

\* ------------------------------------------------------- enableTensorFlow
enableTensorFlow ==
    /\ Suspend(Task("enable", "import"))
    /\ alertMsg' = NoAlert
    /\ UNCHANGED <<prefVars, data, predictions, busyVars, modeVars, modelVars,
                   envVars, unhandled>>

\* an outer catch that reports the failure but leaves the flags alone
EnableEngineFailed_NoFallback(t) ==
    /\ At(t, "enable", "import")
    /\ ~engineLoaded
    /\ alertMsg' = AlertTfUnable
    /\ Finish(t)
    /\ UNCHANGED <<prefVars, data, predictions, busyVars, modeVars, modelVars,
                   envVars, unhandled>>

\* import('@tensorflow/tfjs') or tf.ready() rejects: the outer catch
EnableEngineFailed(t) ==
    /\ At(t, "enable", "import")
    /\ ~engineLoaded
    /\ tfAvailable' = FALSE
    /\ mockMode' = TRUE
    /\ alertMsg' = AlertTfUnable
    /\ Finish(t)
    /\ UNCHANGED <<prefVars, data, predictions, busyVars, modelVars,
                   envVars, unhandled>>

EnableEngineReady(t) ==
    /\ At(t, "enable", "import")
    /\ tfAvailable' = TRUE
    /\ mockMode' = FALSE
    /\ engineLoaded' = TRUE
    /\ IF indexedDBAvailable
          THEN Goto(t, "load") /\ alertMsg' = NoAlert
          ELSE Finish(t) /\ alertMsg' = AlertTfLoaded
    /\ UNCHANGED <<prefVars, data, predictions, busyVars, modelVars,
                   idbAvailable, lstmParams, unhandled>>

EnableLoadedPersisted(t) ==
    /\ At(t, "enable", "load")
    /\ stored # NoModel
    /\ model' = stored
    /\ persistedModel' = TRUE
    /\ alertMsg' = AlertTfLoaded
    /\ Finish(t)
    /\ UNCHANGED <<prefVars, data, predictions, busyVars, modeVars, stored,
                   envVars, unhandled>>

\* no entry under the key, or the load request fails: the inner catch
EnableLoadFailed(t) ==
    /\ At(t, "enable", "load")
    /\ alertMsg' = AlertTfLoaded
    /\ Finish(t)
    /\ UNCHANGED <<prefVars, data, predictions, busyVars, modeVars, modelVars,
                   envVars, unhandled>>

\* the "Enable Mock Mode" checkbox: setMockMode(e.target.checked)
MockCheckbox ==
    /\ mockMode' = ~mockMode
    /\ alertMsg' = NoAlert
    /\ UNCHANGED <<prefVars, data, predictions, busyVars, tfAvailable,
                   modelVars, envVars, tasks, unhandled>>

\* ------------------------------------------------------ preference inputs
\* the Symbol input: setSymbol(e.target.value)
setSymbol(s) ==
    /\ s # symbol
    /\ symbol' = s
    /\ alertMsg' = NoAlert
    /\ UNCHANGED <<apiKey, rememberSettings, theme, localStorage, data,
                   predictions, busyVars, modeVars, modelVars, envVars,
                   tasks, unhandled>>

\* the API Key inputs: setApiKey(e.target.value)
setApiKey(k) ==
    /\ k # apiKey
    /\ apiKey' = k
    /\ alertMsg' = NoAlert
    /\ UNCHANGED <<symbol, rememberSettings, theme, localStorage, data,
                   predictions, busyVars, modeVars, modelVars, envVars,
                   tasks, unhandled>>

handleRememberToggle(checked) ==
    /\ checked # rememberSettings
    /\ rememberSettings' = checked
    /\ localStorage' = [localStorage EXCEPT !["rememberSettings"] = BoolStr(checked)]
    /\ alertMsg' = NoAlert
    /\ UNCHANGED <<symbol, apiKey, theme, data, predictions, busyVars,
                   modeVars, modelVars, envVars, tasks, unhandled>>

\* the Theme select, followed by the [theme] effect that stores the theme
setTheme(t) ==
    /\ t # theme
    /\ theme' = t
    /\ localStorage' = [localStorage EXCEPT !["theme"] = t]
    /\ alertMsg' = NoAlert
    /\ UNCHANGED <<symbol, apiKey, rememberSettings, data, predictions,
                   busyVars, modeVars, modelVars, envVars, tasks,
                   unhandled>>

\* --------------------------------------------------------- fetchStockData
fetchStockData ==
    /\ Suspend(Task("fetch", "get"))
    /\ loading' = TRUE
    /\ localStorage' = IF rememberSettings
                          THEN [localStorage EXCEPT !["lastSymbol"] = symbol,
                                                    !["lastApiKey"] = apiKey]
                          ELSE localStorage
    /\ alertMsg' = NoAlert
    /\ UNCHANGED <<symbol, apiKey, rememberSettings, theme, data, predictions,
                   training, lossHistory, modeVars, modelVars, envVars,
                   unhandled>>

FetchParsed(t, series) ==
    /\ At(t, "fetch", "get")
    /\ data' = series
    /\ loading' = FALSE
    /\ alertMsg' = NoAlert
    /\ Finish(t)
    /\ UNCHANGED <<prefVars, predictions, training, lossHistory, modeVars,
                   modelVars, envVars, unhandled>>

\* the request rejects or the response has no 'Time Series (Daily)'
FetchFailed(t) ==
    /\ At(t, "fetch", "get")
    /\ loading' = FALSE
    /\ alertMsg' = AlertFetchFailed
    /\ Finish(t)
    /\ UNCHANGED <<prefVars, data, predictions, training, lossHistory,
                   modeVars, modelVars, envVars, unhandled>>

\* ------------------------------------------------- mockTrain and trainLSTM
\* lossArr after n epochs; a loss is represented by the index of its epoch
LossArr(n) == [e \in 1..n |-> e - 1]

\* a loop bound of i <= N - lookback
WindowCount_OffByOne(n, lookback) == IF n - lookback >= 0 THEN n - lookback + 1 ELSE 0

\* windows built by the loop of trainLSTM: one per i in [0, N - lookback)
WindowCount(n, lookback) == IF n - lookback > 0 THEN n - lookback ELSE 0

\* const epochs = Number(lstmParams.epochs || 10): a configured count of 0
\* is falsy and is replaced by the default
MockEpochs(params) == IF params.epochs = 0 THEN DefaultMockEpochs ELSE params.epochs

\* windows whose target is the last value of the window
Windows_TargetInWindow(norm, lookback) ==
    LET n == WindowCount(Len(norm), lookback)
    IN  [xs |-> [i \in 1..n |-> slice(norm, i - 1, i - 1 + lookback)],
         ys |-> [i \in 1..n |-> elem(norm, i - 2 + lookback)]]

\* xs and ys built by the loop of trainLSTM
Windows(norm, lookback) ==
    LET n == WindowCount(Len(norm), lookback)
    IN  [xs |-> [i \in 1..n |-> slice(norm, i - 1, i - 1 + lookback)],
         ys |-> [i \in 1..n |-> elem(norm, i - 1 + lookback)]]
\* the windows of a live run
TrainWindows(t) == Windows(normalize(Closes(t.cData)).norm, Lookback)

\* mockTrain up to its first await (or to its end when epochs = 0)
mockTrain ==
    /\ IF MockEpochs(lstmParams) > 0
          THEN /\ training' = TRUE
               /\ lossHistory' = LossArr(1)
               /\ Suspend([Task("train", "mockEpoch") EXCEPT !.e = 1])
               /\ alertMsg' = NoAlert
               /\ UNCHANGED <<model, persistedModel>>
          ELSE /\ lossHistory' = <<>>
               /\ model' = MockModel
               /\ persistedModel' = FALSE
               /\ training' = FALSE
               /\ alertMsg' = AlertMockTrainDone
               /\ UNCHANGED tasks
    /\ UNCHANGED <<prefVars, data, predictions, loading, modeVars, stored,
                   envVars, unhandled>>

\* the real path of trainLSTM up to its first await
liveTrain ==
    /\ training' = TRUE
    /\ lossHistory' = <<>>
    /\ Suspend([Task("train", "import") EXCEPT !.cData = data])
    /\ alertMsg' = NoAlert
    /\ UNCHANGED <<prefVars, data, predictions, loading, modeVars, modelVars,
                   envVars, unhandled>>

\* the Train LSTM button (disabled while training)
trainLSTM ==
    /\ ~training
    /\ IF Len(data) = 0
          THEN /\ alertMsg' = AlertFetchFirst
               /\ UNCHANGED <<prefVars, data, predictions, busyVars, modeVars,
                              modelVars, envVars, tasks, unhandled>>
          ELSE IF selectImpl(mockMode, tfAvailable) = "mock"
                  THEN mockTrain
                  ELSE liveTrain

\* a simulated epoch delay of mockTrain elapses
MockTrainTick(t) ==
    /\ At(t, "train", "mockEpoch")
    /\ IF t.e < MockEpochs(lstmParams)
          THEN /\ lossHistory' = LossArr(t.e + 1)
               /\ Put([t EXCEPT !.e = @ + 1], tasks \ {t})
               /\ alertMsg' = NoAlert
               /\ UNCHANGED <<model, persistedModel, training>>
          ELSE /\ model' = MockModel
               /\ persistedModel' = FALSE
               /\ training' = FALSE
               /\ alertMsg' = AlertMockTrainDone
               /\ Finish(t)
               /\ UNCHANGED lossHistory
    /\ UNCHANGED <<prefVars, data, predictions, loading, modeVars, stored,
                   envVars, unhandled>>

\* a catch without the finally block
TrainCaught_NoFinally(t, msg) ==
    /\ alertMsg' = msg
    /\ Finish(t)
    /\ UNCHANGED <<prefVars, data, predictions, busyVars, modeVars,
                   modelVars, envVars, unhandled>>

\* a catch that also falls back to mock mode
TrainCaught_FallsBack(t, msg) ==
    /\ training' = FALSE
    /\ mockMode' = TRUE
    /\ alertMsg' = msg
    /\ Finish(t)
    /\ UNCHANGED <<prefVars, data, predictions, loading, lossHistory,
                   tfAvailable, modelVars, envVars, unhandled>>

\* catch + finally of trainLSTM
TrainCaught(t, msg) ==
    /\ training' = FALSE
    /\ alertMsg' = msg
    /\ Finish(t)
    /\ UNCHANGED <<prefVars, data, predictions, loading, lossHistory,
                   modeVars, modelVars, envVars, unhandled>>

\* the engine is there, but the loop built no window
TrainNotEnoughData(t) ==
    /\ At(t, "train", "import")
    /\ WindowCount(Len(t.cData), Lookback) = 0
    /\ TrainCaught(t, AlertTrainNotEnough)

\* windows exist but building the tensors or the model throws
TrainBuildFailed(t) ==
    /\ At(t, "train", "import")
    /\ WindowCount(Len(t.cData), Lookback) > 0
    /\ TrainCaught(t, AlertTrainFailed)

\* the model is published as soon as it is built, before fit has run
TrainFitStarted_SetsModel(t) ==
    /\ At(t, "train", "import")
    /\ WindowCount(Len(t.cData), Lookback) > 0
    /\ Goto(t, "fit")
    /\ model' = LayersModel
    /\ alertMsg' = NoAlert
    /\ UNCHANGED <<prefVars, data, predictions, busyVars, modeVars,
                   persistedModel, stored, envVars, unhandled>>

\* windows and model are built and fit is started
TrainFitStarted(t) ==
    /\ At(t, "train", "import")
    /\ WindowCount(Len(t.cData), Lookback) > 0
    /\ Goto(t, "fit")
    /\ alertMsg' = NoAlert
    /\ UNCHANGED <<prefVars, data, predictions, busyVars, modeVars, modelVars,
                   envVars, unhandled>>

\* onEpochEnd
TrainEpochEnd(t) ==
    /\ At(t, "train", "fit")
    /\ t.e < lstmParams.epochs
    /\ lossHistory' = LossArr(t.e + 1)
    /\ Put([t EXCEPT !.e = @ + 1], tasks \ {t})
    /\ alertMsg' = NoAlert
    /\ UNCHANGED <<prefVars, data, predictions, loading, training, modeVars,
                   modelVars, envVars, unhandled>>

\* fit rejects
TrainFitFailed(t) ==
    /\ At(t, "train", "fit")
    /\ TrainCaught(t, AlertTrainFailed)

\* fit resolves; with IndexedDB the save is awaited, else the run completes
TrainFitDone(t) ==
    /\ At(t, "train", "fit")
    /\ t.e = lstmParams.epochs
    /\ IF indexedDBAvailable
          THEN /\ Goto(t, "save")
               /\ alertMsg' = NoAlert
               /\ UNCHANGED <<model, training>>
          ELSE /\ model' = LayersModel
               /\ training' = FALSE
               /\ alertMsg' = AlertTrainDone
               /\ Finish(t)
    /\ UNCHANGED <<prefVars, data, predictions, loading, lossHistory,
                   modeVars, persistedModel, stored, envVars, unhandled>>

TrainSaved(t) ==
    /\ At(t, "train", "save")
    /\ stored' = LayersModel
    /\ persistedModel' = TRUE
    /\ model' = LayersModel
    /\ training' = FALSE
    /\ alertMsg' = AlertTrainDone
    /\ Finish(t)
    /\ UNCHANGED <<prefVars, data, predictions, loading, lossHistory,
                   modeVars, envVars, unhandled>>

\* a failed save that fails the run
TrainSaveFailed_FailsRun(t) ==
    /\ At(t, "train", "save")
    /\ TrainCaught(t, AlertTrainFailed)

\* the save rejects: the inner catch, then the run completes
TrainSaveFailed(t) ==
    /\ At(t, "train", "save")
    /\ model' = LayersModel
    /\ training' = FALSE
    /\ alertMsg' = AlertTrainDone
    /\ Finish(t)
    /\ UNCHANGED <<prefVars, data, predictions, loading, lossHistory,
                   modeVars, persistedModel, stored, envVars, unhandled>>

\* --------------------------------------------- mockPredict and predictLSTM
\* the horizon dates after the last point of a series, as the Date methods
\* compute them in the browser's time zone
FutureDates(series, horizon, zone) ==
    LET lastDate == parseDate(series[Len(series)].date)
    IN  [i \in 1..horizon |->
            toISODate(setDate(lastDate, zone, getDate(lastDate, zone) + i))]
\* futureDates.map((date, i) => ({ date, close: preds[i] }))
Forecast(futureDates, preds) ==
    [i \in 1..Len(futureDates) |->
        [date |-> futureDates[i], close |-> elem(preds, i - 1)]]

\* sin(i) + Math.random() * 0.5 for i in 1..5, in whole percents of the last
\* close: the values the draw can round to
Jitters(i) == IF i \in {1, 2} THEN {1} ELSE IF i = 3 THEN {0, 1} ELSE {-1, 0}
JitterDraws(horizon) ==
    {j \in [1..horizon -> -1..1] : \A i \in 1..horizon : j[i] \in Jitters(i)}

\* mockPredict has no await: it runs to its end inside the click
mockPredict(horizon, jitter, zone) ==
    /\ LET last == data[Len(data)].close
           preds == [i \in 1..horizon |-> last + (jitter[i] * last) \div 100]
       IN  predictions' = Forecast(FutureDates(data, horizon, zone), preds)
    /\ alertMsg' = AlertMockPredictDone
    /\ UNCHANGED <<prefVars, data, busyVars, modeVars, modelVars,
                   envVars, tasks, unhandled>>

\* the Predict button: predictLSTM(5)
predictLSTM ==
    IF Len(data) = 0
       THEN /\ alertMsg' = NoAlert
            /\ UNCHANGED <<prefVars, data, predictions, busyVars, modeVars,
                           modelVars, envVars, tasks, unhandled>>
       ELSE IF selectImpl(mockMode, tfAvailable) = "mock"
               THEN \E jitter \in JitterDraws(Horizon), zone \in Zones :
                       mockPredict(Horizon, jitter, zone)
               ELSE /\ Suspend([Task("predict", "import")
                                  EXCEPT !.cModel = model, !.cData = data])
                    /\ alertMsg' = NoAlert
                    /\ UNCHANGED <<prefVars, data, predictions, busyVars,
                                   modeVars, modelVars, envVars,
                                   unhandled>>

\* the outer catch of predictLSTM
PredictCaught(t) ==
    /\ alertMsg' = AlertPredictFailed
    /\ Finish(t)
    /\ UNCHANGED <<prefVars, data, predictions, busyVars, modeVars, modelVars,
                   envVars, unhandled>>

\* engine ready, no model in the closure: load one or give up silently
PredictNoModel(t) ==
    /\ At(t, "predict", "import")
    /\ t.cModel = NoModel
    /\ IF indexedDBAvailable THEN Goto(t, "load") ELSE Finish(t)
    /\ alertMsg' = NoAlert
    /\ UNCHANGED <<prefVars, data, predictions, busyVars, modeVars, modelVars,
                   envVars, unhandled>>

\* let inputSeq = norm.slice(-Number(lstmParams.lookback))
RolloutInput(t) == sliceLast(normalize(Closes(t.cData)).norm, Lookback)
\* tf.tensor2d([inputSeq]).reshape([1, lookback, 1]) needs lookback values
ReshapeOk(inputSeq) == Len(inputSeq) = Lookback

\* the load resolved: the model is published and the rollout starts, unless
\* the reshape of its first step throws
PredictLoaded(t) ==
    /\ At(t, "predict", "load")
    /\ stored # NoModel
    /\ model' = stored
    /\ persistedModel' = TRUE
    /\ IF ReshapeOk(RolloutInput(t))
          THEN /\ Put([t EXCEPT !.pc = "rollout", !.cModel = stored,
                                !.inputSeq = RolloutInput(t)], tasks \ {t})
               /\ alertMsg' = NoAlert
          ELSE /\ Finish(t)
               /\ alertMsg' = AlertPredictFailed
    /\ UNCHANGED <<prefVars, data, predictions, busyVars, modeVars, stored,
                   envVars, unhandled>>

\* a failed load that goes to the outer catch
PredictLoadFailed_Reports(t) ==
    /\ At(t, "predict", "load")
    /\ alertMsg' = AlertPredictFailed
    /\ Finish(t)
    /\ UNCHANGED <<prefVars, data, predictions, busyVars, modeVars, modelVars,
                   envVars, unhandled>>

\* no entry under the key, or the load request fails: the inner catch returns
PredictLoadFailed(t) ==
    /\ At(t, "predict", "load")
    /\ alertMsg' = NoAlert
    /\ Finish(t)
    /\ UNCHANGED <<prefVars, data, predictions, busyVars, modeVars, modelVars,
                   envVars, unhandled>>

\* engine ready, the closure holds a LayersModel: the first rollout step starts
PredictRolloutStarted(t) ==
    /\ At(t, "predict", "import")
    /\ t.cModel = LayersModel
    /\ ReshapeOk(RolloutInput(t))
    /\ Put([t EXCEPT !.pc = "rollout", !.inputSeq = RolloutInput(t)], tasks \ {t})
    /\ alertMsg' = NoAlert
    /\ UNCHANGED <<prefVars, data, predictions, busyVars, modeVars, modelVars,
                   envVars, unhandled>>

\* engine ready, the closure holds a LayersModel, but the series has fewer
\* points than the lookback: the reshape of the first step throws
PredictReshapeFailed(t) ==
    /\ At(t, "predict", "import")
    /\ t.cModel = LayersModel
    /\ ~ReshapeOk(RolloutInput(t))
    /\ PredictCaught(t)

\* engine ready, the closure holds the mock marker: it has no predict method
PredictOnMockHandle(t) ==
    /\ At(t, "predict", "import")
    /\ t.cModel = MockModel
    /\ PredictCaught(t)

\* one rollout step completes (out.data() and tf.nextFrame() resolve) with
\* the model's output val; after the last one the forecast is published
PredictStep(t, val, zone) ==
    /\ At(t, "predict", "rollout")
    /\ LET preds == Append(t.preds, val)
           inputSeq == Append(Tail(t.inputSeq), val)
           stats == normalize(Closes(t.cData))
       IN  IF t.e + 1 < Horizon
              THEN /\ Put([t EXCEPT !.e = @ + 1, !.preds = preds,
                                    !.inputSeq = inputSeq], tasks \ {t})
                   /\ UNCHANGED predictions
              ELSE /\ predictions' =
                         Forecast(FutureDates(t.cData, Horizon, zone),
                                  denormalize(preds, stats.min, stats.max))
                   /\ Finish(t)
    /\ alertMsg' = NoAlert
    /\ UNCHANGED <<prefVars, data, busyVars, modeVars, modelVars,
                   envVars, unhandled>>

\* a rollout step throws
PredictStepFailed(t) ==
    /\ At(t, "predict", "rollout")
    /\ PredictCaught(t)

\* ------------------------------------------------------------ exportModel
exportModel ==
    /\ IF model = NoModel
          THEN alertMsg' = AlertTrainFirst /\ UNCHANGED tasks
          ELSE IF mockMode \/ ~tfAvailable
                  THEN alertMsg' = AlertExportMock /\ UNCHANGED tasks
                  ELSE /\ Suspend([Task("export", "import") EXCEPT !.cModel = model])
                       /\ alertMsg' = NoAlert
    /\ UNCHANGED <<prefVars, data, predictions, busyVars, modeVars, modelVars,
                   envVars, unhandled>>

ExportCaught(t) ==
    /\ alertMsg' = AlertExportFailed
    /\ Finish(t)
    /\ UNCHANGED <<prefVars, data, predictions, busyVars, modeVars, modelVars,
                   envVars, unhandled>>

\* model.save('downloads://...') is called on a LayersModel
ExportSaveStarted(t) ==
    /\ At(t, "export", "import")
    /\ t.cModel = LayersModel
    /\ Goto(t, "save")
    /\ alertMsg' = NoAlert
    /\ UNCHANGED <<prefVars, data, predictions, busyVars, modeVars, modelVars,
                   envVars, unhandled>>

\* model.save is called on the mock marker, which has no save method
ExportOnMockHandle(t) ==
    /\ At(t, "export", "import")
    /\ t.cModel = MockModel
    /\ ExportCaught(t)

ExportSaved(t) ==
    /\ At(t, "export", "save")
    /\ alertMsg' = AlertExportDone
    /\ Finish(t)
    /\ UNCHANGED <<prefVars, data, predictions, busyVars, modeVars, modelVars,
                   envVars, unhandled>>

ExportSaveFailed(t) ==
    /\ At(t, "export", "save")
    /\ ExportCaught(t)

\* ------------------------------------------------------------ importModel
importModel(hasFiles) ==
    /\ IF ~hasFiles
          THEN alertMsg' = AlertImportNoFiles /\ UNCHANGED tasks
          ELSE IF mockMode
                  THEN alertMsg' = AlertImportMock /\ UNCHANGED tasks
                  ELSE /\ Suspend(Task("import", "import"))
                       /\ alertMsg' = NoAlert
    /\ UNCHANGED <<prefVars, data, predictions, busyVars, modeVars, modelVars,
                   envVars, unhandled>>

ImportCaught(t) ==
    /\ alertMsg' = AlertImportFailed
    /\ Finish(t)
    /\ UNCHANGED <<prefVars, data, predictions, busyVars, modeVars, modelVars,
                   envVars, unhandled>>

ImportEngineFailed(t) ==
    /\ At(t, "import", "import")
    /\ ~engineLoaded
    /\ ImportCaught(t)

ImportEngineReady(t) ==
    /\ At(t, "import", "import")
    /\ engineLoaded' = TRUE
    /\ Goto(t, "load")
    /\ alertMsg' = NoAlert
    /\ UNCHANGED <<prefVars, data, predictions, busyVars, modeVars, modelVars,
                   idbAvailable, lstmParams, unhandled>>

\* tf.loadLayersModel(browserFiles) rejects
ImportLoadFailed(t) ==
    /\ At(t, "import", "load")
    /\ ImportCaught(t)

ImportLoaded(t) ==
    /\ At(t, "import", "load")
    /\ model' = LayersModel
    /\ IF indexedDBAvailable
          THEN Goto(t, "save") /\ alertMsg' = NoAlert
          ELSE Finish(t) /\ alertMsg' = AlertImportDone
    /\ UNCHANGED <<prefVars, data, predictions, busyVars, modeVars,
                   persistedModel, stored, envVars, unhandled>>

ImportSaved(t) ==
    /\ At(t, "import", "save")
    /\ stored' = LayersModel
    /\ persistedModel' = TRUE
    /\ alertMsg' = AlertImportDone
    /\ Finish(t)
    /\ UNCHANGED <<prefVars, data, predictions, busyVars, modeVars, model,
                   envVars, unhandled>>

\* an inner catch that still sets the persisted flag
ImportSaveFailed_SetsFlag(t) ==
    /\ At(t, "import", "save")
    /\ persistedModel' = TRUE
    /\ alertMsg' = AlertImportDone
    /\ Finish(t)
    /\ UNCHANGED <<prefVars, data, predictions, busyVars, modeVars, model,
                   stored, envVars, unhandled>>

\* loadedModel.save rejects: the inner catch, then the import completes
ImportSaveFailed(t) ==
    /\ At(t, "import", "save")
    /\ alertMsg' = AlertImportDone
    /\ Finish(t)
    /\ UNCHANGED <<prefVars, data, predictions, busyVars, modeVars, modelVars,
                   envVars, unhandled>>

\* --------------------------------------------------- deletePersistedModel
\* a Delete Model button without the mock-mode guard
deletePersistedModel_NoModeGuard ==
    /\ IF ~indexedDBAvailable
          THEN alertMsg' = AlertNoIdb /\ UNCHANGED tasks
          ELSE /\ Suspend(Task("delete", "import"))
               /\ alertMsg' = NoAlert
    /\ UNCHANGED <<prefVars, data, predictions, busyVars, modeVars, modelVars,
                   envVars, unhandled>>

\* the Delete Model button
deletePersistedModel ==
    /\ IF ~indexedDBAvailable
          THEN alertMsg' = AlertNoIdb /\ UNCHANGED tasks
          ELSE IF mockMode
                  THEN alertMsg' = AlertDeleteMock /\ UNCHANGED tasks
                  ELSE /\ Suspend(Task("delete", "import"))
                       /\ alertMsg' = NoAlert
    /\ UNCHANGED <<prefVars, data, predictions, busyVars, modeVars, modelVars,
                   envVars, unhandled>>

\* a deletePersistedModel invocation: the button's, or the one awaited by
\* resetAllSettings, which resumes when the deletion settles: at pc "resume"
\* when it resolved past its try block, at "resumeCaught" through its catch
InDelete(t, pc) == t \in tasks /\ t.op \in {"delete", "reset"} /\ t.pc = pc
DeleteSettled(t, pc) == IF t.op = "reset" THEN Goto(t, pc) ELSE Finish(t)

\* the catch of deletePersistedModel
DeleteCaught(t) ==
    /\ alertMsg' = AlertDeleteFailed
    /\ DeleteSettled(t, "resumeCaught")
    /\ UNCHANGED <<prefVars, data, predictions, busyVars, modeVars, modelVars,
                   envVars, unhandled>>

DeleteEngineFailed(t) ==
    /\ InDelete(t, "import")
    /\ ~engineLoaded
    /\ DeleteCaught(t)

DeleteEngineReady(t) ==
    /\ InDelete(t, "import")
    /\ engineLoaded' = TRUE
    /\ Goto(t, "remove")
    /\ alertMsg' = NoAlert
    /\ UNCHANGED <<prefVars, data, predictions, busyVars, modeVars, modelVars,
                   idbAvailable, lstmParams, unhandled>>

\* a deletion that leaves the persistedModel flag as it was
DeleteRemoved_KeepsFlag(t) ==
    /\ InDelete(t, "remove")
    /\ stored' = NoModel
    /\ model' = NoModel
    /\ alertMsg' = AlertDeleteDone
    /\ DeleteSettled(t, "resume")
    /\ UNCHANGED <<prefVars, data, predictions, busyVars, modeVars,
                   persistedModel, envVars, unhandled>>

\* tf.io.removeModel resolves
DeleteRemoved(t) ==
    /\ InDelete(t, "remove")
    /\ stored' = NoModel
    /\ persistedModel' = FALSE
    /\ model' = NoModel
    /\ alertMsg' = AlertDeleteDone
    /\ DeleteSettled(t, "resume")
    /\ UNCHANGED <<prefVars, data, predictions, busyVars, modeVars,
                   envVars, unhandled>>

\* tf.io.removeModel rejects
DeleteRemoveFailed(t) ==
    /\ InDelete(t, "remove")
    /\ DeleteCaught(t)

\* ------------------------------------------------------- resetAllSettings
\* a reset whose default is the live mode
resetAllSettings_LiveDefault ==
    /\ localStorage' = IF theme # DefaultTheme
                          THEN [EmptyStore EXCEPT !["theme"] = DefaultTheme]
                          ELSE EmptyStore
    /\ symbol' = DefaultSymbol
    /\ apiKey' = DefaultApiKey
    /\ rememberSettings' = FALSE
    /\ theme' = DefaultTheme
    /\ mockMode' = FALSE
    /\ tfAvailable' = FALSE
    /\ IF ~indexedDBAvailable \/ mockMode
          THEN alertMsg' = AlertResetDone /\ UNCHANGED tasks
          ELSE /\ Suspend(Task("reset", "import"))
               /\ alertMsg' = NoAlert
    /\ UNCHANGED <<data, predictions, busyVars, modelVars, envVars,
                   unhandled>>

\* The Reset All button.  The deletePersistedModel it calls is the one of the
\* current render, so its guards read mockMode as it was before the reset.
\* When that call returns at a guard, the await resumes at once and the
\* final alert belongs to the same step.
resetAllSettings ==
    /\ localStorage' = IF theme # DefaultTheme
                          THEN [EmptyStore EXCEPT !["theme"] = DefaultTheme]
                          ELSE EmptyStore
    /\ symbol' = DefaultSymbol
    /\ apiKey' = DefaultApiKey
    /\ rememberSettings' = FALSE
    /\ theme' = DefaultTheme
    /\ mockMode' = TRUE
    /\ tfAvailable' = FALSE
    /\ IF ~indexedDBAvailable \/ mockMode
          THEN alertMsg' = AlertResetDone /\ UNCHANGED tasks
          ELSE /\ Suspend(Task("reset", "import"))
               /\ alertMsg' = NoAlert
    /\ UNCHANGED <<data, predictions, busyVars, modelVars, envVars,
                   unhandled>>

\* the awaited deletion has settled: the last line of resetAllSettings
ResetDone(t) ==
    /\ t \in tasks
    /\ t.op = "reset"
    /\ t.pc \in {"resume", "resumeCaught"}
    /\ alertMsg' = AlertResetDone
    /\ Finish(t)
    /\ UNCHANGED <<prefVars, data, predictions, busyVars, modeVars, modelVars,
                   envVars, unhandled>>

\* ------------------------------------------------------------ next states
\* continuations of the suspended invocations of one handler
EnableStep(t) ==
    \/ EnableEngineFailed(t)
    \/ EnableEngineReady(t)
    \/ EnableLoadedPersisted(t)
    \/ EnableLoadFailed(t)

FetchStep(t) ==
    \/ \E series \in FetchResults : FetchParsed(t, series)
    \/ FetchFailed(t)

TrainStep(t) ==
    \/ MockTrainTick(t)
    \/ TrainNotEnoughData(t)
    \/ TrainBuildFailed(t)
    \/ TrainFitStarted(t)
    \/ TrainEpochEnd(t)
    \/ TrainFitFailed(t)
    \/ TrainFitDone(t)
    \/ TrainSaved(t)
    \/ TrainSaveFailed(t)

\* Mode and training: the mode controls with fetch and train
Next ==
    \/ enableTensorFlow
    \/ MockCheckbox
    \/ fetchStockData
    \/ trainLSTM
    \/ \E t \in tasks : EnableEngineFailed(t)
    \/ \E t \in tasks : EnableEngineReady(t)
    \/ \E t \in tasks : EnableLoadedPersisted(t)
    \/ \E t \in tasks : EnableLoadFailed(t)
    \/ \E t \in tasks, series \in FetchResults : FetchParsed(t, series)
    \/ \E t \in tasks : FetchFailed(t)
    \/ \E t \in tasks : MockTrainTick(t)
    \/ \E t \in tasks : TrainNotEnoughData(t)
    \/ \E t \in tasks : TrainBuildFailed(t)
    \/ \E t \in tasks : TrainFitStarted(t)
    \/ \E t \in tasks : TrainEpochEnd(t)
    \/ \E t \in tasks : TrainFitFailed(t)
    \/ \E t \in tasks : TrainFitDone(t)
    \/ \E t \in tasks : TrainSaved(t)
    \/ \E t \in tasks : TrainSaveFailed(t)

Spec == Init /\ [][Next]_vars

\* Every pending request of the engine, the network and the timers settles
FairSpec ==
    /\ Spec
    /\ WF_vars(\E t \in tasks : EnableStep(t))
    /\ WF_vars(\E t \in tasks : FetchStep(t))
    /\ WF_vars(\E t \in tasks : TrainStep(t))

\* Model lifecycle: training with import and delete
NextLifecycle ==
    \/ enableTensorFlow
    \/ MockCheckbox
    \/ fetchStockData
    \/ trainLSTM
    \/ \E hasFiles \in BOOLEAN : importModel(hasFiles)
    \/ deletePersistedModel
    \/ \E t \in tasks : EnableEngineFailed(t)
    \/ \E t \in tasks : EnableEngineReady(t)
    \/ \E t \in tasks : EnableLoadedPersisted(t)
    \/ \E t \in tasks : EnableLoadFailed(t)
    \/ \E t \in tasks, series \in FetchResults : FetchParsed(t, series)
    \/ \E t \in tasks : FetchFailed(t)
    \/ \E t \in tasks : MockTrainTick(t)
    \/ \E t \in tasks : TrainNotEnoughData(t)
    \/ \E t \in tasks : TrainBuildFailed(t)
    \/ \E t \in tasks : TrainFitStarted(t)
    \/ \E t \in tasks : TrainEpochEnd(t)
    \/ \E t \in tasks : TrainFitFailed(t)
    \/ \E t \in tasks : TrainFitDone(t)
    \/ \E t \in tasks : TrainSaved(t)
    \/ \E t \in tasks : TrainSaveFailed(t)
    \/ \E t \in tasks : ImportEngineFailed(t)
    \/ \E t \in tasks : ImportEngineReady(t)
    \/ \E t \in tasks : ImportLoadFailed(t)
    \/ \E t \in tasks : ImportLoaded(t)
    \/ \E t \in tasks : ImportSaved(t)
    \/ \E t \in tasks : ImportSaveFailed(t)
    \/ \E t \in tasks : DeleteEngineFailed(t)
    \/ \E t \in tasks : DeleteEngineReady(t)
    \/ \E t \in tasks : DeleteRemoved(t)
    \/ \E t \in tasks : DeleteRemoveFailed(t)

\* Mode and training for every configured epoch count
SpecParams == InitParams /\ [][Next]_vars

SpecLifecycle == Init /\ [][NextLifecycle]_vars

\* Every operation, used one at a time: the user waits for an operation to
\* settle before the next click
NextSerial ==
    \/ tasks = {} /\ enableTensorFlow
    \/ tasks = {} /\ MockCheckbox
    \/ tasks = {} /\ fetchStockData
    \/ tasks = {} /\ trainLSTM
    \/ tasks = {} /\ predictLSTM
    \/ tasks = {} /\ exportModel
    \/ tasks = {} /\ \E hasFiles \in BOOLEAN : importModel(hasFiles)
    \/ tasks = {} /\ deletePersistedModel
    \/ tasks = {} /\ resetAllSettings
    \/ \E t \in tasks : EnableEngineFailed(t)
    \/ \E t \in tasks : EnableEngineReady(t)
    \/ \E t \in tasks : EnableLoadedPersisted(t)
    \/ \E t \in tasks : EnableLoadFailed(t)
    \/ \E t \in tasks, series \in FetchResults : FetchParsed(t, series)
    \/ \E t \in tasks : FetchFailed(t)
    \/ \E t \in tasks : MockTrainTick(t)
    \/ \E t \in tasks : TrainNotEnoughData(t)
    \/ \E t \in tasks : TrainBuildFailed(t)
    \/ \E t \in tasks : TrainFitStarted(t)
    \/ \E t \in tasks : TrainEpochEnd(t)
    \/ \E t \in tasks : TrainFitFailed(t)
    \/ \E t \in tasks : TrainFitDone(t)
    \/ \E t \in tasks : TrainSaved(t)
    \/ \E t \in tasks : TrainSaveFailed(t)
    \/ \E t \in tasks : PredictNoModel(t)
    \/ \E t \in tasks : PredictLoaded(t)
    \/ \E t \in tasks : PredictLoadFailed(t)
    \/ \E t \in tasks : PredictRolloutStarted(t)
    \/ \E t \in tasks : PredictReshapeFailed(t)
    \/ \E t \in tasks : PredictOnMockHandle(t)
    \/ \E t \in tasks, val \in ModelOutputs, zone \in Zones : PredictStep(t, val, zone)
    \/ \E t \in tasks : PredictStepFailed(t)
    \/ \E t \in tasks : ExportSaveStarted(t)
    \/ \E t \in tasks : ExportOnMockHandle(t)
    \/ \E t \in tasks : ExportSaved(t)
    \/ \E t \in tasks : ExportSaveFailed(t)
    \/ \E t \in tasks : ImportEngineFailed(t)
    \/ \E t \in tasks : ImportEngineReady(t)
    \/ \E t \in tasks : ImportLoadFailed(t)
    \/ \E t \in tasks : ImportLoaded(t)
    \/ \E t \in tasks : ImportSaved(t)
    \/ \E t \in tasks : ImportSaveFailed(t)
    \/ \E t \in tasks : DeleteEngineFailed(t)
    \/ \E t \in tasks : DeleteEngineReady(t)
    \/ \E t \in tasks : DeleteRemoved(t)
    \/ \E t \in tasks : DeleteRemoveFailed(t)
    \/ \E t \in tasks : ResetDone(t)

SpecSerial == Init /\ [][NextSerial]_vars

\* Preferences and reset: the preference controls with the mode controls,
\* delete and reset
NextPrefs ==
    \/ \E s \in Symbols : setSymbol(s)
    \/ \E k \in ApiKeys : setApiKey(k)
    \/ \E checked \in BOOLEAN : handleRememberToggle(checked)
    \/ \E th \in Themes : setTheme(th)
    \/ enableTensorFlow
    \/ MockCheckbox
    \/ deletePersistedModel
    \/ resetAllSettings
    \/ \E t \in tasks : EnableEngineFailed(t)
    \/ \E t \in tasks : EnableEngineReady(t)
    \/ \E t \in tasks : EnableLoadedPersisted(t)
    \/ \E t \in tasks : EnableLoadFailed(t)
    \/ \E t \in tasks : DeleteEngineFailed(t)
    \/ \E t \in tasks : DeleteEngineReady(t)
    \/ \E t \in tasks : DeleteRemoved(t)
    \/ \E t \in tasks : DeleteRemoveFailed(t)
    \/ \E t \in tasks : ResetDone(t)

SpecPrefs == Init /\ [][NextPrefs]_vars

\* Durable storage: the steps that read or write the stored model or the
\* persistedModel flag, overlapping freely: enable, mock and live training,
\* the predict request that has to load its model, import, delete and reset.
\* The series is fetched while nothing else is in flight; the API returns the
\* long series, the model one output and the browser is in UTC.  Failures of
\* steps that leave the store and the flag alone are left out, and with no
\* mode checkbox the live mode is entered with the engine already loaded.
NextStorage ==
    \/ enableTensorFlow
    \/ (tasks = {} /\ fetchStockData)
    \/ trainLSTM
    \/ /\ selectImpl(mockMode, tfAvailable) = "live"
       /\ model = NoModel
       /\ predictLSTM
    \/ \E hasFiles \in BOOLEAN : importModel(hasFiles)
    \/ deletePersistedModel
    \/ resetAllSettings
    \/ \E t \in tasks : EnableEngineFailed(t)
    \/ \E t \in tasks : EnableEngineReady(t)
    \/ \E t \in tasks : EnableLoadedPersisted(t)
    \/ \E t \in tasks : EnableLoadFailed(t)
    \/ \E t \in tasks : FetchParsed(t, Series(LongLen))
    \/ \E t \in tasks : MockTrainTick(t)
    \/ \E t \in tasks : TrainFitStarted(t)
    \/ \E t \in tasks : TrainEpochEnd(t)
    \/ \E t \in tasks : TrainFitDone(t)
    \/ \E t \in tasks : TrainSaved(t)
    \/ \E t \in tasks : TrainSaveFailed(t)
    \/ \E t \in tasks : PredictNoModel(t)
    \/ \E t \in tasks : PredictLoaded(t)
    \/ \E t \in tasks : PredictLoadFailed(t)
    \/ \E t \in tasks : PredictStep(t, 2, [off |-> 0, dst |-> 0])
    \/ \E t \in tasks : ImportEngineReady(t)
    \/ \E t \in tasks : ImportLoadFailed(t)
    \/ \E t \in tasks : ImportLoaded(t)
    \/ \E t \in tasks : ImportSaved(t)
    \/ \E t \in tasks : ImportSaveFailed(t)
    \/ \E t \in tasks : DeleteEngineReady(t)
    \/ \E t \in tasks : DeleteRemoved(t)
    \/ \E t \in tasks : DeleteRemoveFailed(t)
    \/ \E t \in tasks : ResetDone(t)

SpecStorage == Init /\ [][NextStorage]_vars

TypeOK ==
    /\ symbol \in Symbols
    /\ apiKey \in ApiKeys
    /\ rememberSettings \in BOOLEAN
    /\ theme \in Themes
    /\ data \in {<<>>} \cup FetchResults
    /\ loading \in BOOLEAN
    /\ training \in BOOLEAN
    /\ Len(lossHistory) <= MockEpochs(lstmParams)
    /\ tfAvailable \in BOOLEAN
    /\ mockMode \in BOOLEAN
    /\ model \in Models
    /\ persistedModel \in BOOLEAN
    /\ stored \in {NoModel, LayersModel}
    /\ unhandled = FALSE

\* =================================================================== claims
\* the invocation t settled in this step (its last continuation ran)
Settled(t) == t \in tasks /\ t \notin tasks' /\ Cardinality(tasks') < Cardinality(tasks)
\* the invocation t was created by this step
Created(t) == t \in tasks' /\ t \notin tasks /\ Cardinality(tasks') > Cardinality(tasks)

\* a train request of this step ran the given implementation
TrainRan(impl) ==
    \E t \in tasks' : /\ Created(t)
                      /\ t.op = "train"
                      /\ t.pc = (IF impl = "mock" THEN "mockEpoch" ELSE "import")
\* a predict request of this step ran the given implementation
PredictRan(impl) ==
    IF impl = "mock"
       THEN alertMsg' = AlertMockPredictDone
       ELSE \E t \in tasks' : Created(t) /\ t.op = "predict"

\* C1: a train or predict request runs the mock implementation exactly when
\* mockMode is true or tfAvailable is false at the request, the live one
\* otherwise; a request needs a fetched point; a run on the mock path ends
\* with the mock completion, and the not-enough-data error only ends a live
\* run whose series is no longer than the lookback.
C1_ModeRouting ==
    [][ /\ \A impl \in {"mock", "live"} :
              (TrainRan(impl) \/ PredictRan(impl))
                 => /\ Len(data) > 0
                    /\ impl = (IF mockMode \/ ~tfAvailable THEN "mock" ELSE "live")
        /\ \A t \in tasks :
              (Settled(t) /\ t.op = "train" /\ t.pc = "mockEpoch")
                 => alertMsg' = AlertMockTrainDone /\ model' = MockModel
        /\ (alertMsg' = AlertTrainNotEnough)
              => \E t \in tasks : /\ Settled(t)
                                  /\ t.op = "train"
                                  /\ t.pc = "import"
                                  /\ Len(t.cData) <= Lookback
      ]_vars

\* a mock run on 30 closes completed with the mode switch at Live but the
\* engine unavailable
C1_Witness ==
    /\ alertMsg = AlertMockTrainDone
    /\ ~mockMode
    /\ ~tfAvailable
    /\ Len(data) = LongLen
    /\ LongLen > Lookback

\* the step in which the engine import or initialisation of enableTensorFlow fails
EnableFails ==
    \E t \in tasks : At(t, "enable", "import") /\ Settled(t) /\ ~engineLoaded'

\* C2: when enableTensorFlow fails to load or initialise the engine, the
\* action ends with mockMode = true and tfAvailable = false, the failure is
\* reported by the handler itself (nothing is rejected past it), and the
\* selector returns the mock implementation in the resulting state.
C2_EnableFailure ==
    [][ EnableFails => /\ mockMode'
                       /\ ~tfAvailable'
                       /\ alertMsg' = AlertTfUnable
                       /\ ~unhandled'
                       /\ selectImpl(mockMode', tfAvailable') = "mock"
      ]_vars

\* a failed enable, issued while another enable is still suspended
C2_Witness ==
    /\ alertMsg = AlertTfUnable
    /\ mockMode
    /\ ~tfAvailable
    /\ ~engineLoaded

\* the invocation t ran one of its continuations in this step
Stepped(t) == t \in tasks /\ t \notin tasks'

\* the engine import of an enableTensorFlow invocation resolves in this step
EnableSucceeds ==
    \E t \in tasks : At(t, "enable", "import") /\ Stepped(t) /\ engineLoaded'
\* the engine import of an enableTensorFlow invocation settles in this step
EnableSettles ==
    \E t \in tasks : At(t, "enable", "import") /\ Stepped(t)
\* the user toggles the mock-mode checkbox in this step
CheckboxToggled ==
    /\ mockMode' = ~mockMode
    /\ alertMsg' = NoAlert
    /\ UNCHANGED <<prefVars, data, predictions, busyVars, tfAvailable,
                   modelVars, envVars, tasks, unhandled>>
\* the user clicks Reset All in this step
ResetClicked ==
    /\ symbol' = DefaultSymbol
    /\ apiKey' = DefaultApiKey
    /\ ~rememberSettings'
    /\ theme' = DefaultTheme
    /\ \/ alertMsg' = AlertResetDone /\ tasks' = tasks
       \/ \E t \in tasks' : Created(t) /\ t.op = "reset"

\* C3 as stated: in every reachable state mockMode = false implies
\* tfAvailable = true.
C3_Original == ~mockMode => tfAvailable

\* C3 as amended: tfAvailable becomes true only in the step in which an
\* enableTensorFlow succeeds, and that step sets mockMode false; mockMode
\* goes from true to false only in such a step or when the user toggles the
\* mock-mode checkbox.
C3_LiveOnlyByEnableOrToggle ==
    [][ /\ (~tfAvailable /\ tfAvailable') => EnableSucceeds
        /\ (mockMode /\ ~mockMode') => (EnableSucceeds \/ CheckboxToggled)
        /\ EnableSucceeds => (tfAvailable' /\ ~mockMode')
      ]_vars

\* the mode switch is at Live although the engine, loaded before, is flagged
\* unavailable: Reset All followed by the checkbox
C3_Witness ==
    /\ ~mockMode
    /\ ~tfAvailable
    /\ engineLoaded

\* C4 as stated: mockMode and tfAvailable change only in a step of the enable
\* action or of the user toggle.
C4_Original ==
    [][ (mockMode' # mockMode \/ tfAvailable' # tfAvailable)
           => (EnableSettles \/ CheckboxToggled)
      ]_vars

\* C4 as amended: mockMode and tfAvailable change only in a step of the
\* enable action, of the user toggle or of Reset All, and Reset All leaves
\* mockMode = true and tfAvailable = false; a failure of live training or
\* live prediction leaves both unchanged.
C4_ModeFrame ==
    [][ /\ (mockMode' # mockMode \/ tfAvailable' # tfAvailable)
           => (EnableSettles \/ CheckboxToggled \/ ResetClicked)
        /\ ResetClicked => (mockMode' /\ ~tfAvailable')
        /\ (alertMsg' \in {AlertTrainFailed, AlertTrainNotEnough, AlertPredictFailed})
           => UNCHANGED modeVars
      ]_vars

\* a live training run has failed and the mode is still Live
C4_Witness ==
    /\ alertMsg = AlertTrainFailed
    /\ ~mockMode
    /\ tfAvailable

\* C5: a step of a training run changes the current model only when it is
\* the run's completion; a step of an import changes it only when the
\* deserialisation succeeded; a failing step of either leaves it unchanged.
C5_ModelReplacedOnSuccess ==
    [][ \A t \in tasks :
           Stepped(t) =>
              /\ (t.op = "train" /\ model' # model)
                    => /\ Settled(t)
                       /\ alertMsg' \in {AlertTrainDone, AlertMockTrainDone}
              /\ (t.op = "train" /\ alertMsg' \in {AlertTrainFailed, AlertTrainNotEnough})
                    => model' = model
              /\ (t.op = "import" /\ model' # model)
                    => t.pc = "load" /\ model' = LayersModel
              /\ (t.op = "import" /\ alertMsg' = AlertImportFailed)
                    => model' = model
      ]_vars

\* a live training run has failed while the mock handle of an earlier run is
\* current, and it still is
C5_Witness ==
    /\ alertMsg = AlertTrainFailed
    /\ model = MockModel

\* C6: when the engine import of a live training run on a series no longer
\* than the lookback resolves, the run ends there with the not-enough-data
\* alert: training is cleared, no fit is started and model, persistedModel
\* and the stored entry are unchanged.
C6_InsufficientData ==
    [][ \A t \in tasks :
           (Stepped(t) /\ t.op = "train" /\ t.pc = "import" /\ Len(t.cData) <= Lookback)
              => /\ Settled(t)
                 /\ alertMsg' = AlertTrainNotEnough
                 /\ ~training'
                 /\ UNCHANGED <<model, persistedModel, stored>>
      ]_vars

\* the error was shown for a series of exactly Lookback points
C6_Witness ==
    /\ alertMsg = AlertTrainNotEnough
    /\ ~training
    /\ Len(data) = Lookback

\* an invocation of the handler is suspended
InFlight(op) == \E t \in tasks : t.op = op

\* C7: whenever no fetch is in flight loading is false and whenever no
\* training run is in flight training is false, and every fetch and every
\* training run in flight leads to such a state.
C7_IndicatorsCleared ==
    /\ [](~InFlight("fetch") => ~loading)
    /\ [](~InFlight("train") => ~training)
    /\ (InFlight("fetch") ~> (~InFlight("fetch") /\ ~loading))
    /\ (InFlight("train") ~> (~InFlight("train") /\ ~training))

\* a live training run has failed while a fetch is in flight: training is
\* cleared, loading is still set
C7_Witness ==
    /\ alertMsg = AlertTrainFailed
    /\ ~training
    /\ ~InFlight("train")
    /\ loading
    /\ InFlight("fetch")

\* a deletePersistedModel invocation is created by this step
DeleteStarted == \E t \in tasks' : Created(t) /\ t.op = "delete"

\* C8: Delete Model reports storage-unavailable only when IndexedDB is
\* absent, nothing-to-delete only in mock mode with IndexedDB present, and
\* goes on to the removal only with IndexedDB present and mock mode off; the
\* two rejections and a failed removal leave model, persistedModel and the
\* stored entry unchanged; these change only when the removal succeeds,
\* which removes the entry, sets model to null and persistedModel to false.
C8_DeleteErrorPaths ==
    [][ /\ (alertMsg' = AlertNoIdb)
           => (~idbAvailable /\ UNCHANGED <<modelVars, tasks>>)
        /\ (alertMsg' = AlertDeleteMock)
           => (idbAvailable /\ mockMode /\ UNCHANGED <<modelVars, tasks>>)
        /\ DeleteStarted
           => (idbAvailable /\ ~mockMode /\ UNCHANGED modelVars)
        /\ (alertMsg' = AlertDeleteFailed) => UNCHANGED modelVars
        /\ \A t \in tasks :
              (Stepped(t) /\ t.op = "delete")
                 => IF alertMsg' = AlertDeleteDone
                       THEN /\ t.pc = "remove"
                            /\ stored' = NoModel
                            /\ model' = NoModel
                            /\ ~persistedModel'
                       ELSE UNCHANGED modelVars
        /\ (stored # NoModel /\ stored' = NoModel) => alertMsg' = AlertDeleteDone
      ]_vars

\* a removal has failed: the stored entry, the model and the flag are kept
C8_Witness ==
    /\ alertMsg = AlertDeleteFailed
    /\ stored = LayersModel
    /\ model = LayersModel
    /\ persistedModel

\* this step is the start of a Reset All
ResetStarted ==
    \/ alertMsg' = AlertResetDone /\ tasks' = tasks
    \/ \E t \in tasks' : Created(t) /\ t.op = "reset"
\* this step completes a Reset All whose deletion did not go through a catch
ResetCompletedUncaught ==
    \/ alertMsg' = AlertResetDone /\ tasks' = tasks
    \/ \E t \in tasks : Stepped(t) /\ t.op = "reset" /\ t.pc = "resume"

\* C9: Reset All puts symbol, apiKey, rememberSettings, theme and mode at
\* their defaults and rejects nothing past its caller; when it completes
\* with IndexedDB available and no failed removal, the stored entry is gone,
\* model is null and persistedModel is false.
C9_ResetDeletesPersisted ==
    [][ /\ ResetStarted
           => /\ symbol' = DefaultSymbol
              /\ apiKey' = DefaultApiKey
              /\ ~rememberSettings'
              /\ theme' = DefaultTheme
              /\ mockMode'
              /\ ~tfAvailable'
              /\ ~unhandled'
        /\ (ResetCompletedUncaught /\ idbAvailable)
           => /\ stored' = NoModel
              /\ model' = NoModel
              /\ ~persistedModel'
      ]_vars

\* C10: an export request gets past its guards, to the engine import and the
\* call of model.save, only when mockMode is false, tfAvailable is true and
\* the current model is a LayersModel; in every other state it is rejected
\* at once.
C10_ExportOnlyLiveTrained ==
    [][ /\ (\E t \in tasks' : Created(t) /\ t.op = "export")
           => (~mockMode /\ tfAvailable /\ model = LayersModel)
        /\ (alertMsg' = AlertExportMock)
           => ((mockMode \/ ~tfAvailable) /\ tasks' = tasks)
      ]_vars

\* C11: an import with no files or in mock mode fails at once and leaves
\* model, persistedModel and the stored entry unchanged; otherwise, when the
\* deserialisation succeeds, the loaded model becomes the current model at
\* that moment, whether or not a save follows or succeeds; an import sets
\* persistedModel only in the step in which its save succeeded, and then to
\* true.
C11_Import ==
    [][ /\ (alertMsg' \in {AlertImportNoFiles, AlertImportMock})
           => UNCHANGED <<modelVars, tasks>>
        /\ (alertMsg' = AlertImportMock) => mockMode
        /\ (\E t \in tasks' : Created(t) /\ t.op = "import")
           => (~mockMode /\ UNCHANGED modelVars)
        /\ \A t \in tasks :
              (Stepped(t) /\ t.op = "import")
                 => /\ (t.pc = "import") => UNCHANGED modelVars
                    /\ (t.pc = "load")
                          => /\ UNCHANGED <<persistedModel, stored>>
                             /\ IF alertMsg' = AlertImportFailed
                                   THEN UNCHANGED model
                                   ELSE model' = LayersModel
                    /\ (t.pc = "save")
                          => /\ UNCHANGED model
                             /\ alertMsg' = AlertImportDone
                             /\ IF stored' # stored \/ persistedModel' # persistedModel
                                   THEN stored' = LayersModel /\ persistedModel'
                                   ELSE UNCHANGED modelVars
        /\ (alertMsg' = AlertImportDone /\ ~idbAvailable)
           => (model' = LayersModel /\ UNCHANGED <<persistedModel, stored>>)
      ]_vars

\* an import completed although its save failed: the loaded model is current,
\* nothing is stored and the flag is still false
C11_Witness ==
    /\ alertMsg = AlertImportDone
    /\ idbAvailable
    /\ model = LayersModel
    /\ stored = NoModel
    /\ ~persistedModel

\* the live prediction t, started with no model, ends in this step without
\* any effect
PredictNoOp(t) ==
    /\ tasks' = tasks \ {t}
    /\ alertMsg' = NoAlert
    /\ UNCHANGED <<predictions, modelVars>>

\* C12: a live prediction started with no current model asks durable storage
\* for one; without IndexedDB, or when the load fails, it ends as a no-op:
\* predictions, model, persistedModel and the stored entry are unchanged and
\* no alert is shown; when the load succeeds the loaded model becomes the
\* current model, persistedModel becomes true and the rollout starts with
\* the loaded model (its first step throws at once when the series is
\* shorter than the lookback).
C12_PredictLoadsModel ==
    [][ /\ \A t \in tasks' :
              (Created(t) /\ t.op = "predict")
                 => (t.pc = "import" /\ t.cModel = model /\ ~mockMode /\ tfAvailable)
        /\ \A t \in tasks :
              (Stepped(t) /\ t.op = "predict" /\ t.cModel = NoModel)
                 => /\ t.pc \in {"import", "load"}
                    /\ (t.pc = "import" /\ ~idbAvailable) => PredictNoOp(t)
                    /\ (t.pc = "import" /\ idbAvailable)
                          => /\ tasks' = (tasks \ {t}) \cup {[t EXCEPT !.pc = "load"]}
                             /\ alertMsg' = NoAlert
                             /\ UNCHANGED <<predictions, modelVars>>
                    /\ (t.pc = "load")
                          => \/ PredictNoOp(t)
                             \/ /\ stored # NoModel
                                /\ model' = stored
                                /\ persistedModel'
                                /\ UNCHANGED <<predictions, stored>>
                                /\ IF ReshapeOk(RolloutInput(t))
                                      THEN /\ alertMsg' = NoAlert
                                           /\ \E u \in tasks' \ tasks :
                                                 /\ u.pc = "rollout"
                                                 /\ u.cModel = stored
                                                 /\ u.cData = t.cData
                                      ELSE /\ alertMsg' = AlertPredictFailed
                                           /\ tasks' = tasks \ {t}
      ]_vars

\* a live prediction started with no model is waiting for the load of the
\* stored model
C12_Witness ==
    /\ \E t \in tasks : t.op = "predict" /\ t.pc = "load" /\ t.cModel = NoModel
    /\ model = NoModel
    /\ ~persistedModel
    /\ stored = LayersModel
    /\ Len(data) > 0

\* C13: a live run whose fit has completed always ends with the trained
\* model as current model and the completion message, whether the save to
\* IndexedDB succeeded, failed or was skipped for want of IndexedDB; the run
\* touches persistedModel only in the step in which its save succeeded, and
\* sets it to true.
C13_TrainingIndependentOfSave ==
    [][ \A t \in tasks :
           (Stepped(t) /\ t.op = "train" /\ t.pc \in {"import", "fit", "save"})
              => /\ (t.pc = "import") => UNCHANGED modelVars
                 /\ (t.pc = "fit")
                       => /\ UNCHANGED <<persistedModel, stored>>
                          /\ \/ alertMsg' = AlertTrainFailed /\ UNCHANGED model
                             \/ \E u \in tasks' : /\ u.op = "train"
                                                  /\ u.pc \in {"fit", "save"}
                                                  /\ UNCHANGED model
                                                  /\ u.pc = "save" => idbAvailable
                             \/ /\ ~idbAvailable
                                /\ tasks' = tasks \ {t}
                                /\ model' = LayersModel
                                /\ alertMsg' = AlertTrainDone
                                /\ ~training'
                 /\ (t.pc = "save")
                       => /\ tasks' = tasks \ {t}
                          /\ model' = LayersModel
                          /\ alertMsg' = AlertTrainDone
                          /\ ~training'
                          /\ IF stored' # stored \/ persistedModel' # persistedModel
                                THEN stored' = LayersModel /\ persistedModel'
                                ELSE UNCHANGED <<persistedModel, stored>>
      ]_vars

\* a live run completed although its save failed: the trained model is
\* current, nothing is stored and the flag is false
C13_Witness ==
    /\ alertMsg = AlertTrainDone
    /\ idbAvailable
    /\ model = LayersModel
    /\ stored = NoModel
    /\ ~persistedModel
    /\ ~training

ForecastShape(f, series, h) ==
    /\ Len(f) = h
    /\ \A i \in 1..h : f[i].date = series[Len(series)].date + i
\* the live prediction t publishes its forecast in this step
Published(t) ==
    /\ Stepped(t)
    /\ t.op = "predict"
    /\ t.pc = "rollout"
    /\ tasks' = tasks \ {t}
    /\ alertMsg' = NoAlert

\* C15: a prediction that produces output, mock or live, sets predictions to
\* exactly Horizon points dated last known date + 1, + 2, ..., + Horizon;
\* with an empty series nothing is predicted and predictions is unchanged.
C15_ForecastShape ==
    [][ /\ (alertMsg' = AlertMockPredictDone)
           => ForecastShape(predictions', data, Horizon)
        /\ \A t \in tasks :
              Published(t) => ForecastShape(predictions', t.cData, Horizon)
        /\ (Len(data) = 0)
           => /\ UNCHANGED predictions
              /\ ~\E t \in tasks' : Created(t) /\ t.op = "predict"
      ]_vars

\* C16: whenever predictions is non-empty, every forecast date is after the
\* date of the last point of the series currently held.
C16_ForecastFresh ==
    (Len(predictions) > 0 /\ Len(data) > 0)
       => \A i \in 1..Len(predictions) :
             predictions[i].date > data[Len(data)].date

\* C17: a key of the preference store is written only in a step in which the
\* remember flag is set (before or after the step): with rememberSettings
\* false no user action stores a value under lastSymbol, lastApiKey,
\* rememberSettings or theme.
C17_PreferenceWrites ==
    [][ \A k \in StoreKeys :
           (localStorage'[k] # localStorage[k] /\ localStorage'[k] # Absent)
              => (rememberSettings \/ rememberSettings')
      ]_vars

\* C18: the app starts in mock mode, and without IndexedDB every
\* enableTensorFlow attempt ends with mockMode still true, also when the
\* engine itself loads.
C18_MockWithoutIndexedDB ==
    /\ (mockMode = TRUE)
    /\ [][ (~idbAvailable /\ \E t \in tasks : Stepped(t) /\ t.op = "enable")
              => mockMode'
         ]_vars

\* C19: a live prediction with a usable current model and at least one
\* point starts its rollout on a window of exactly Lookback values, the
\* trailing values of the normalised series; every step that completes
\* appends one output and makes the next window from the previous one
\* without its oldest value and with that output appended; the step that
\* completes the Horizon-th invocation publishes Horizon points whose closes
\* are the outputs denormalised with the minimum and maximum of the input
\* series.
C19_Rollout ==
    [][ \A t \in tasks :
           (Stepped(t) /\ t.op = "predict" /\ t.cModel = LayersModel
              /\ Len(t.cData) >= 1)
              => LET stats == normalize(Closes(t.cData))
                     n == Len(stats.norm)
                 IN  /\ (t.pc = "import")
                           => \E u \in tasks' \ tasks :
                                 /\ u.pc = "rollout"
                                 /\ u.e = 0
                                 /\ u.preds = <<>>
                                 /\ Len(u.inputSeq) = Lookback
                                 /\ n >= Lookback
                                 /\ \A j \in 1..Lookback :
                                       u.inputSeq[j] = stats.norm[n - Lookback + j]
                     /\ (t.pc = "rollout" /\ alertMsg' # AlertPredictFailed)
                           => /\ Len(t.inputSeq) = Lookback
                              /\ Len(t.preds) = t.e
                              /\ IF t.e + 1 < Horizon
                                    THEN /\ UNCHANGED predictions
                                         /\ \E u \in tasks' \ tasks :
                                               /\ u.pc = "rollout"
                                               /\ u.e = t.e + 1
                                               /\ Len(u.preds) = u.e
                                               /\ SubSeq(u.preds, 1, t.e) = t.preds
                                               /\ u.inputSeq =
                                                     Append(Tail(t.inputSeq), u.preds[u.e])
                                    ELSE /\ tasks' = tasks \ {t}
                                         /\ Len(predictions') = Horizon
                                         /\ \E val \in ModelOutputs :
                                               \A i \in 1..Horizon :
                                                  predictions'[i].close =
                                                     (Append(t.preds, val)[i]
                                                         * Range(stats.min, stats.max))
                                                        \div Scale + stats.min
      ]_vars

\* the windows w of the series norm for the lookback l are max(0, N - l)
\* windows in order, window i holding norm[i .. i+l) and the target norm[i+l]
WindowsOf(w, norm, l) ==
    LET n == Len(norm)
        count == IF n - l > 0 THEN n - l ELSE 0
    IN  /\ Len(w.xs) = count
        /\ Len(w.ys) = count
        /\ \A i \in 0..(count - 1) :
              /\ Len(w.xs[i + 1]) = l
              /\ \A j \in 0..(l - 1) : w.xs[i + 1][j + 1] = norm[i + j + 1]
              /\ w.ys[i + 1] = norm[i + l + 1]
\* lookbacks around the length of a series and around the configured one
Lookbacks(n) ==
    {l \in {1, 2, n - 1, n, n + 1, Lookback - 1, Lookback, Lookback + 1} : l > 0}

\* C20: the windows built by a live training run from its normalised series
\* of length N are exactly max(0, N - Lookback) windows in order, window i
\* with the Lookback inputs norm[i .. i+Lookback) and the target
\* norm[i+Lookback]; the run continues to the fit only when there is a
\* window; and the same holds for the builder with every other lookback
\* L > 0 on every series held.
C20_Windowing ==
    /\ [][ \A t \in tasks :
              (Stepped(t) /\ t.op = "train" /\ t.pc = "import")
                 => /\ WindowsOf(TrainWindows(t),
                                 normalize(Closes(t.cData)).norm, Lookback)
                    /\ (\E u \in tasks' \ tasks : u.pc = "fit")
                          => Len(t.cData) > Lookback
                    /\ (Len(t.cData) <= Lookback)
                          => alertMsg' = AlertTrainNotEnough
         ]_vars
    /\ [](Len(data) > 0
            => LET norm == normalize(Closes(data)).norm
               IN  \A l \in Lookbacks(Len(norm)) :
                      WindowsOf(Windows(norm, l), norm, l))

\* a live run is fitting on the windows of a series longer than the lookback
C20_Witness ==
    \E t \in tasks :
       /\ t.op = "train"
       /\ t.pc = "fit"
       /\ Len(t.cData) > Lookback
       /\ Len(TrainWindows(t).xs) = Len(t.cData) - Lookback
       /\ Len(TrainWindows(t).xs[1]) = Lookback

\* C21: whenever mockMode is false and tfAvailable is true the current model
\* is null or a LayersModel, never the mock marker, and no live prediction
\* or export in flight was started on the mock marker.
C21_NoMockHandleInLive ==
    /\ (~mockMode /\ tfAvailable) => model # MockModel
    /\ \A t \in tasks :
          t.op \in {"predict", "export"} => t.cModel # MockModel

\* C22: in every state, persistedModel = true implies that IndexedDB holds a
\* model under the key lstm-stock-model.
C22_PersistedFlagAgrees == persistedModel => stored # NoModel

\* a live training run has just saved its model while a deletion started
\* before the save is still waiting for tf.io.removeModel
C22_Witness ==
    /\ persistedModel
    /\ stored = LayersModel
    /\ alertMsg = AlertTrainDone
    /\ \E t \in tasks : t.op \in {"delete", "reset"} /\ t.pc = "remove"

====
